---- MODULE Spec2Model ----
(***************************************************************************)
(* protongdb.py: main() launches a game under Proton's wine, looks up the  *)
(* game's process id with pidof and attaches gdb to it.                    *)
(*                                                                         *)
(* Strings are sequences of tokens (a token stands for one character or    *)
(* for one literal substring), so + is \o and "" is <<>>.  A Python dict   *)
(* is a function whose DOMAIN is the set of its keys.  Python's None is    *)
(* the record None for optional strings and NoPid / NoIdx for optional     *)
(* integers.                                                               *)
(***************************************************************************)
EXTENDS Integers, Sequences, FiniteSets, TLC

\* ------------------------------------------------------------------ bounds
MaxInfos == 2          \* longest list get_launch_executable returns
MaxBaseVars == 1       \* variables set in os.environ when main starts
MaxPolls == 2          \* pidof calls that fit between two clock ticks
MaxPid == 2            \* process ids pidof can print are 1..MaxPid

\* --------------------------------------------------------------- constants
Timeout == 3           \* seconds, line 210
NameMax == 15          \* process_name is basename[:15], line 207

ScriptPath == "/tmp/.protongdb_args"
ReloadPath == "/tmp/winereload.py"
TmpPaths == {ScriptPath, ReloadPath}

NoPid == 0             \* pid = None (pidof never prints 0)
NoIdx == -2            \* config_idx = None / not assigned

\* ----------------------------------------------------------- Python values
None == [t |-> "None", s |-> <<>>]
Str(s) == [t |-> "str", s |-> s]
\* truth value of an optional string: None and "" are false
Truthy(v) == v.t = "str" /\ v.s # <<>>

EmptyDict == [k \in {} |-> <<>>]
\* dict.get(k): the value, or None when k is not a key
Get(d, k) == IF k \in DOMAIN d THEN Str(d[k]) ELSE None
\* d[k] = v
Put(d, k, v) == [x \in (DOMAIN d) \cup {k} |-> IF x = k THEN v ELSE d[x]]
\* a setdefault that also replaces an empty value
SetDefault_fillsEmpty(d, k, v) ==
    IF k \in DOMAIN d /\ d[k] # <<>> THEN d ELSE Put(d, k, v)
\* a setdefault that always writes
SetDefault_overwrites(d, k, v) == Put(d, k, v)
\* d.setdefault(k, v): writes only when k is not a key
SetDefault(d, k, v) == IF k \in DOMAIN d THEN d ELSE Put(d, k, v)

\* the two helpers with the operands of the concatenation exchanged
prepend_args_swapped(x, y, delim) == IF Truthy(y) THEN x \o delim \o y.s ELSE x
append_args_swapped(x, y, delim) == IF Truthy(y) THEN y.s \o delim \o x ELSE x
\* x and delim are strings, y is an optional string
prepend_args(x, y, delim) == IF Truthy(y) THEN y.s \o delim \o x ELSE x
append_args(x, y, delim) == IF Truthy(y) THEN x \o delim \o y.s ELSE x

\* ------------------------------------------------------------ string tools
Min(a, b) == IF a < b THEN a ELSE b
Take(s, n) == SubSeq(s, 1, Min(Len(s), n))
Drop(s, n) == SubSeq(s, n + 1, Len(s))
\* index of the last "/" of s, 0 when there is none
LastSlash(s) ==
    IF \E i \in 1..Len(s) : s[i] = "/"
    THEN CHOOSE i \in 1..Len(s) :
            s[i] = "/" /\ \A j \in (i + 1)..Len(s) : s[j] # "/"
    ELSE 0
\* os.path.basename
basename(s) == Drop(s, LastSlash(s))
\* os.path.basename(launch_executable)[:15]
ProcessName(exe) == Take(basename(exe), NameMax)
\* pathlib: install_path / rel (an absolute right operand replaces the left)
JoinPath(base, rel) ==
    IF rel # <<>> /\ rel[1] = "/" THEN rel ELSE base \o <<"/">> \o rel
\* str.upper() on the letters the answers are made of
UpperChar(c) == IF c = "n" THEN "N" ELSE IF c = "y" THEN "Y" ELSE IF c = "o" THEN "O" ELSE c
Upper(s) == [i \in 1..Len(s) |-> UpperChar(s[i])]

\* ------------------------------------------------ the data main works with
InstallPath == <<"/", "games", "/", "app">>          \* game_app.install_path
ProtonPath == <<"{proton}">>                         \* proton_app.install_path
PrefixPath == <<"{prefix}">>                         \* game_app.prefix_path
SteamPath == <<"{steam}">>                           \* steam_path
AppIdStr == <<"{appid}">>                            \* str(appid)
WineBin == ProtonPath \o <<"/files/bin/wine">>
SteamExe == <<"steam.exe">>

LongName == [i \in 1..(NameMax + 2) |-> "x"]
\* the i-th tuple get_launch_executable returns (1-based here, 0-based in Python)
Candidate(i) ==
    [launch_executable |->
         IF i % 3 = 1 THEN <<"g">>
         ELSE IF i % 3 = 2 THEN <<"d", "/", "h">>
         ELSE <<"d", "/">> \o LongName,
     app_config_args |-> IF i % 2 = 0 THEN << <<"-c">> >> ELSE <<>>]
AppInfos(n) == [i \in 1..n |-> Candidate(i)]

UserArgs == {<<>>, << <<"-u">> >>}
\* what the user can type at "Select a game configuration to run: "
DigitChars == <<"0", "1", "2", "3", "4", "5", "6", "7", "8", "9">>
SelectionInputs ==
    {<<DigitChars[d + 1]>> : d \in 0..(MaxInfos + 1)}
        \cup {<<>>, <<"x">>, <<"1", "x">>, <<"-", "1">>, <<" ", "1">>}
\* what the user can type at "[Y/n] "
Answers == {<<>>, <<"n">>, <<"N">>, <<"n", "o">>, <<"y", "n">>}

\* pidof prints the ids of the matching processes, separated by spaces
Pids == 1..MaxPid
PidofOutputs ==
    {<<>>} \cup {<<p>> : p \in Pids}
           \cup {o \in {<<p, q>> : p \in Pids, q \in Pids} : o[1] # o[2]}

\* -------------------------------------------------- environment, 186 - 200
VarNames ==
    {"PATH", "WINEDEBUG", "WINEDLLPATH", "LD_LIBRARY_PATH", "WINEPREFIX",
     "WINEESYNC", "WINEFSYNC", "SteamGameId", "SteamAppId", "WINEDLLOVERRIDES",
     "STEAM_COMPAT_CLIENT_INSTALL_PATH", "WINE_LARGE_ADDRESS_AWARE",
     "GST_PLUGIN_SYSTEM_PATH_1_0", "WINE_GST_REGISTRY_DIR", "HOME"}
BaseValues == {<<>>, <<"e">>}
BaseEnvs ==
    UNION {[S -> BaseValues] :
             S \in {T \in SUBSET VarNames : Cardinality(T) <= MaxBaseVars}}

Rule(line, var, op, value, delim) ==
    [line |-> line, var |-> var, op |-> op, value |-> value, delim |-> delim]
\* lines 187 - 200, one statement each, in order
Rules ==
    << Rule(187, "PATH", "append_args", ProtonPath \o <<"/files/bin">>, <<":">>),
       Rule(188, "WINEDEBUG", "setdefault", <<"-all">>, <<>>),
       Rule(189, "WINEDLLPATH", "prepend_args",
            ProtonPath \o <<"/files/lib64/wine", ":">> \o ProtonPath \o <<"/files/lib/wine">>, <<":">>),
       Rule(190, "LD_LIBRARY_PATH", "setdefault_append_args",
            ProtonPath \o <<"/files/lib64/", ":">> \o ProtonPath \o <<"/files/lib/", ":">> \o InstallPath,
            <<":">>),
       Rule(191, "WINEPREFIX", "setdefault", PrefixPath, <<>>),
       Rule(192, "WINEESYNC", "setdefault", <<"1">>, <<>>),
       Rule(193, "WINEFSYNC", "setdefault", <<"1">>, <<>>),
       Rule(194, "SteamGameId", "setdefault", AppIdStr, <<>>),
       Rule(195, "SteamAppId", "setdefault", AppIdStr, <<>>),
       Rule(196, "WINEDLLOVERRIDES", "append_args",
            <<"steam.exe=b", ";", "dotnetfx35.exe=b", ";", "dxvk_config=n", ";", "d3d11=n", ";",
              "d3d10=n", ";", "d3d10core=n", ";", "d3d10_1=n", ";", "d3d9=n", ";", "dxgi=n">>,
            <<";">>),
       Rule(197, "STEAM_COMPAT_CLIENT_INSTALL_PATH", "setdefault", SteamPath, <<>>),
       Rule(198, "WINE_LARGE_ADDRESS_AWARE", "setdefault", <<"1">>, <<>>),
       Rule(199, "GST_PLUGIN_SYSTEM_PATH_1_0", "prepend_args",
            ProtonPath \o <<"/files/lib64/gstreamer-1.0", ":">> \o ProtonPath \o <<"/files/lib/gstreamer-1.0">>,
            <<":">>),
       Rule(200, "WINE_GST_REGISTRY_DIR", "setdefault", PrefixPath \o <<"/gstreamer-1.0/">>, <<>>) >>

\* the effect of one of the statements 187 - 200 on env_vars
ApplyRule(env, r) ==
    CASE r.op = "append_args" ->
            Put(env, r.var, append_args(r.value, Get(env, r.var), r.delim))
      [] r.op = "prepend_args" ->
            Put(env, r.var, prepend_args(r.value, Get(env, r.var), r.delim))
      [] r.op = "setdefault" ->
            SetDefault(env, r.var, r.value)
      [] r.op = "setdefault_append_args" ->
            SetDefault(env, r.var, append_args(r.value, Get(env, r.var), r.delim))

\* str.strip() for blanks
RECURSIVE Strip(_)
Strip(s) ==
    IF s # <<>> /\ s[1] = " " THEN Strip(Tail(s))
    ELSE IF s # <<>> /\ s[Len(s)] = " " THEN Strip(SubSeq(s, 1, Len(s) - 1))
    ELSE s
IsDigit(c) == \E i \in 1..Len(DigitChars) : DigitChars[i] = c
DigitVal(c) == (CHOOSE i \in 1..Len(DigitChars) : DigitChars[i] = c) - 1
RECURSIVE NatOf(_)
NatOf(s) ==
    IF s = <<>> THEN 0
    ELSE 10 * NatOf(SubSeq(s, 1, Len(s) - 1)) + DigitVal(s[Len(s)])
\* int(text): blanks around it dropped, an optional sign, then digits;
\* anything else raises ValueError (ok = FALSE)
IntOfText(text) ==
    LET t == Strip(text)
        signed == t # <<>> /\ t[1] \in {"-", "+"}
        digits == IF signed THEN Tail(t) ELSE t
        good == digits # <<>> /\ \A i \in 1..Len(digits) : IsDigit(digits[i])
    IN  IF good
        THEN [ok |-> TRUE,
              val |-> IF signed /\ t[1] = "-" THEN 0 - NatOf(digits) ELSE NatOf(digits)]
        ELSE [ok |-> FALSE, val |-> 0]
\* safe_cast(input(...), int): the integer typed, None when int() raises
safe_cast(inp) == IF IntOfText(inp).ok THEN IntOfText(inp).val ELSE NoIdx
\* int(check_output(["pidof", name])): one id parses, several ("1 2") raise ValueError
IntOfOutput(out) ==
    IF Len(out) = 1 THEN [ok |-> TRUE, val |-> out[1]] ELSE [ok |-> FALSE, val |-> NoPid]

\* ------------------------------------------------------------------- state
VARIABLES
    pc,               \* the statement main is at
    outcome,          \* "running", or how main ended
    fs,               \* the paths of TmpPaths that exist
    written,          \* the paths this run created or wrote
    user_app_args,    \* args.app_args
    app_infos,        \* get_launch_executable's list
    selectReads,      \* times the selection prompt was read
    typed,            \* the line read at the selection prompt
    config_idx,       \* the index typed at the selection prompt (0-based)
    launch_executable, app_config_args,
    executable_path, app_args,
    confirm,          \* the upper-cased answer to "[Y/n]"
    answered,         \* the confirmation prompt has been read
    os_environ,       \* os.environ
    env_vars,         \* the working copy, lines 186 - 200
    ruleIdx,          \* the next statement of Rules to run
    popenCalls,       \* calls of subprocess.Popen
    spawned,          \* the children started: [argv, env] each
    now,              \* time.time(), in seconds since line 210
    timeout,          \* line 210
    spins,            \* pidof calls since the clock last moved
    polls,            \* what each kind of poll has been seen: see Poll
    pollOut,          \* the output of the latest pidof call
    pid,              \* line 208 / 213 / 215
    resolver,         \* "Idle", "Polling", "Found", "TimedOut", "Crashed"
    gdb,              \* "not_started", "running", "exited", "failed"
    gdbPid,           \* the -p argument gdb was given
    gdbCalls,         \* calls of subprocess.call(["gdb", ...])
    killed            \* the pids `kill -9` was called with

vars == <<pc, outcome, fs, written, user_app_args, app_infos, selectReads, typed, config_idx,
          launch_executable, app_config_args, executable_path, app_args, confirm,
          answered, os_environ, env_vars, ruleIdx, popenCalls, spawned, now, timeout,
          spins, polls, pollOut, pid, resolver, gdb, gdbPid, gdbCalls, killed>>

selVars == <<app_infos, selectReads, typed, config_idx, launch_executable, app_config_args>>
tgtVars == <<executable_path, app_args>>
askVars == <<confirm, answered>>
envVars == <<env_vars, ruleIdx>>
kidVars == <<popenCalls, spawned>>
resVars == <<now, timeout, spins, polls, pollOut, pid, resolver>>
dbgVars == <<gdb, gdbPid, gdbCalls, killed>>
fsVars == <<fs, written>>

\* main is called; os.environ is one of envs
InitWith(envs) ==
    /\ pc = "parse"
    /\ outcome = "running"
    /\ fs \in SUBSET TmpPaths
    /\ written = {}
    /\ user_app_args = <<>>
    /\ app_infos = <<>>
    /\ selectReads = 0
    /\ typed = <<>>
    /\ config_idx = NoIdx
    /\ launch_executable = <<>>
    /\ app_config_args = <<>>
    /\ executable_path = <<>>
    /\ app_args = <<>>
    /\ confirm = <<>>
    /\ answered = FALSE
    /\ os_environ \in envs
    /\ env_vars = EmptyDict
    /\ ruleIdx = 0
    /\ popenCalls = 0
    /\ spawned = <<>>
    /\ now = 0
    /\ timeout = 0
    /\ spins = 0
    /\ polls = {}
    /\ pollOut = <<>>
    /\ pid = NoPid
    /\ resolver = "Idle"
    /\ gdb = "not_started"
    /\ gdbPid = NoPid
    /\ gdbCalls = 0
    /\ killed = {}

\* the whole run is explored for the environments that set at most PATH
PipelineEnvs == {e \in BaseEnvs : DOMAIN e \subseteq {"PATH"}}
Init == InitWith(PipelineEnvs)
\* the run up to the Popen call is explored for every environment of BaseEnvs
InitEnv == InitWith(BaseEnvs)

\* main returns or raises
Exit(how) == pc' = "done" /\ outcome' = how

\* lines 77 - 86
ParseArgs ==
    /\ pc = "parse"
    /\ \E hasAppid \in BOOLEAN, ua \in UserArgs :
          /\ user_app_args' = ua
          /\ IF hasAppid
             THEN pc' = "catalog" /\ outcome' = outcome
             ELSE Exit("Help")
    /\ UNCHANGED <<fsVars, selVars, tgtVars, askVars, os_environ, envVars, kidVars,
                   resVars, dbgVars>>

\* lines 88 - 123: the Steam installation, the game, its prefix, Proton, appinfo.vdf
ResolveCatalog ==
    /\ pc = "catalog"
    /\ \E found \in BOOLEAN :
          IF found
          THEN pc' = "launch_infos" /\ outcome' = outcome
          ELSE Exit("PreconditionMissing")
    /\ UNCHANGED <<fsVars, user_app_args, selVars, tgtVars, askVars, os_environ,
                   envVars, kidVars, resVars, dbgVars>>

\* lines 125 - 128 without the test for an empty list
GetLaunchExecutable_noEmptyTest ==
    /\ pc = "launch_infos"
    /\ \E n \in 0..MaxInfos : app_infos' = AppInfos(n)
    /\ pc' = "choose"
    /\ UNCHANGED <<outcome, fsVars, user_app_args, selectReads, typed, config_idx,
                   launch_executable, app_config_args, tgtVars, askVars, os_environ,
                   envVars, kidVars, resVars, dbgVars>>

\* lines 125 - 128
GetLaunchExecutable ==
    /\ pc = "launch_infos"
    /\ \E n \in 0..MaxInfos :
          /\ app_infos' = AppInfos(n)
          /\ IF n = 0
             THEN Exit("NoLaunchConfiguration")
             ELSE pc' = "choose" /\ outcome' = outcome
    /\ UNCHANGED <<fsVars, user_app_args, selectReads, typed, config_idx, launch_executable,
                   app_config_args, tgtVars, askVars, os_environ, envVars, kidVars,
                   resVars, dbgVars>>

\* lines 132 - 133
SelectOnly ==
    /\ pc = "choose"
    /\ Len(app_infos) = 1
    /\ launch_executable' = app_infos[1].launch_executable
    /\ app_config_args' = app_infos[1].app_config_args
    /\ pc' = "download"
    /\ UNCHANGED <<outcome, fsVars, user_app_args, app_infos, selectReads, typed, config_idx,
                   tgtVars, askVars, os_environ, envVars, kidVars, resVars, dbgVars>>

\* a selection that tests only the upper end of the range, so that -1 picks
\* the last tuple as a Python index does
SelectPrompt_upperOnly ==
    /\ pc = "choose"
    /\ Len(app_infos) # 1
    /\ \E inp \in SelectionInputs :
          LET idx == safe_cast(inp) IN
          /\ selectReads' = selectReads + 1
          /\ typed' = inp
          /\ config_idx' = idx
          /\ IF idx = NoIdx \/ idx \notin (-1)..(Len(app_infos) - 1)
             THEN /\ Exit("InvalidSelection")
                  /\ launch_executable' = app_infos[Len(app_infos)].launch_executable
                  /\ app_config_args' = app_infos[Len(app_infos)].app_config_args
             ELSE /\ pc' = "download" /\ outcome' = outcome
                  /\ launch_executable' =
                        app_infos[IF idx < 0 THEN Len(app_infos) ELSE idx + 1].launch_executable
                  /\ app_config_args' =
                        app_infos[IF idx < 0 THEN Len(app_infos) ELSE idx + 1].app_config_args
    /\ UNCHANGED <<fsVars, user_app_args, app_infos, tgtVars, askVars, os_environ,
                   envVars, kidVars, resVars, dbgVars>>

\* lines 134 - 147
SelectPrompt ==
    /\ pc = "choose"
    /\ Len(app_infos) # 1
    /\ \E inp \in SelectionInputs :
          LET idx == safe_cast(inp) IN
          /\ selectReads' = selectReads + 1
          /\ typed' = inp
          /\ config_idx' = idx
          /\ IF idx = NoIdx \/ idx \notin 0..(Len(app_infos) - 1)
             THEN /\ Exit("InvalidSelection")
                  \* the for loop of 135 - 141 leaves the last tuple in the names
                  /\ launch_executable' = app_infos[Len(app_infos)].launch_executable
                  /\ app_config_args' = app_infos[Len(app_infos)].app_config_args
             ELSE /\ pc' = "download" /\ outcome' = outcome
                  /\ launch_executable' = app_infos[idx + 1].launch_executable
                  /\ app_config_args' = app_infos[idx + 1].app_config_args
    /\ UNCHANGED <<fsVars, user_app_args, app_infos, tgtVars, askVars, os_environ,
                   envVars, kidVars, resVars, dbgVars>>

\* lines 151 - 154: urlretrieve writes /tmp/winereload.py, or raises
Download ==
    /\ pc = "download"
    /\ \E ok \in BOOLEAN :
          IF ok
          THEN /\ fs' = fs \cup {ReloadPath}
               /\ written' = written \cup {ReloadPath}
               /\ pc' = "write_script" /\ outcome' = outcome
          ELSE /\ Exit("DownloadFailure")
               /\ UNCHANGED fsVars
    /\ UNCHANGED <<user_app_args, selVars, tgtVars, askVars, os_environ, envVars,
                   kidVars, resVars, dbgVars>>

\* lines 156 - 166
WriteScript ==
    /\ pc = "write_script"
    /\ fs' = fs \cup {ScriptPath}
    /\ written' = written \cup {ScriptPath}
    /\ pc' = "target"
    /\ UNCHANGED <<outcome, user_app_args, selVars, tgtVars, askVars, os_environ,
                   envVars, kidVars, resVars, dbgVars>>

\* lines 168 - 181 with the caller's arguments put first
BuildTarget_userFirst ==
    /\ pc = "target"
    /\ executable_path' = JoinPath(InstallPath, launch_executable)
    /\ app_args' = user_app_args \o app_config_args
    /\ pc' = "confirm"
    /\ UNCHANGED <<outcome, fsVars, user_app_args, selVars, askVars, os_environ,
                   envVars, kidVars, resVars, dbgVars>>

\* lines 168 - 181
BuildTarget ==
    /\ pc = "target"
    /\ executable_path' = JoinPath(InstallPath, launch_executable)
    /\ app_args' = app_config_args \o user_app_args
    /\ pc' = "confirm"
    /\ UNCHANGED <<outcome, fsVars, user_app_args, selVars, askVars, os_environ,
                   envVars, kidVars, resVars, dbgVars>>

\* a confirmation that aborts only on the answer "n" / "N" itself
Confirm_exactN ==
    /\ pc = "confirm"
    /\ \E answer \in Answers :
          /\ confirm' = Upper(answer)
          /\ answered' = TRUE
          /\ IF confirm' = <<"N">>
             THEN Exit("UserAborted")
             ELSE pc' = "environ" /\ outcome' = outcome
    /\ UNCHANGED <<fsVars, user_app_args, selVars, tgtVars, os_environ, envVars,
                   kidVars, resVars, dbgVars>>

\* lines 182 - 184
Confirm ==
    /\ pc = "confirm"
    /\ \E answer \in Answers :
          /\ confirm' = Upper(answer)
          /\ answered' = TRUE
          /\ IF Len(confirm') > 0 /\ confirm'[1] = "N"
             THEN Exit("UserAborted")
             ELSE pc' = "environ" /\ outcome' = outcome
    /\ UNCHANGED <<fsVars, user_app_args, selVars, tgtVars, os_environ, envVars,
                   kidVars, resVars, dbgVars>>

\* line 186 starting from an empty dict instead of a copy of os.environ
CopyEnviron_empty ==
    /\ pc = "environ"
    /\ env_vars' = EmptyDict
    /\ ruleIdx' = 1
    /\ pc' = "compose"
    /\ UNCHANGED <<outcome, fsVars, user_app_args, selVars, tgtVars, askVars,
                   os_environ, kidVars, resVars, dbgVars>>

\* line 186
CopyEnviron ==
    /\ pc = "environ"
    /\ env_vars' = os_environ
    /\ ruleIdx' = 1
    /\ pc' = "compose"
    /\ UNCHANGED <<outcome, fsVars, user_app_args, selVars, tgtVars, askVars,
                   os_environ, kidVars, resVars, dbgVars>>

\* one of the lines 187 - 200
ComposeStep ==
    /\ pc = "compose"
    /\ ruleIdx \in 1..Len(Rules)
    /\ env_vars' = ApplyRule(env_vars, Rules[ruleIdx])
    /\ ruleIdx' = ruleIdx + 1
    /\ pc' = IF ruleIdx = Len(Rules) THEN "spawn" ELSE "compose"
    /\ UNCHANGED <<outcome, fsVars, user_app_args, selVars, tgtVars, askVars,
                   os_environ, kidVars, resVars, dbgVars>>

\* the argument list of line 202
ChildArgv(exe_path, args) == <<WineBin, SteamExe, exe_path>> \o args

\* line 202: Popen starts the child and returns, or raises OSError
Spawn ==
    /\ pc = "spawn"
    /\ popenCalls' = popenCalls + 1
    /\ \E ok \in BOOLEAN :
          IF ok
          THEN /\ spawned' = Append(spawned,
                      [argv |-> ChildArgv(executable_path, app_args), env |-> env_vars])
               /\ pc' = "timer" /\ outcome' = outcome
          ELSE /\ Exit("SpawnFailure")
               /\ UNCHANGED spawned
    /\ UNCHANGED <<fsVars, user_app_args, selVars, tgtVars, askVars, os_environ,
                   envVars, resVars, dbgVars>>

\* lines 207 - 210
StartTimer ==
    /\ pc = "timer"
    /\ pid' = NoPid
    /\ timeout' = now + Timeout
    /\ resolver' = "Polling"
    /\ pc' = "loop"
    /\ UNCHANGED <<outcome, fsVars, user_app_args, selVars, tgtVars, askVars,
                   os_environ, envVars, kidVars, now, spins, polls, pollOut, dbgVars>>

\* line 211 with a wait of one clock unit before every poll that follows a
\* poll without a match
LoopCheck_waits ==
    /\ pc = "loop"
    /\ IF pid = NoPid /\ now < timeout
       THEN /\ spins < MaxPolls
            /\ pc' = "poll"
            /\ now' = IF "none" \in polls THEN now + 1 ELSE now
            /\ spins' = IF "none" \in polls THEN 0 ELSE spins
            /\ UNCHANGED resolver
       ELSE /\ pc' = "after_loop"
            /\ resolver' = IF pid = NoPid THEN "TimedOut" ELSE "Found"
            /\ spins' = 0
            /\ UNCHANGED now
    /\ UNCHANGED <<outcome, fsVars, user_app_args, selVars, tgtVars, askVars,
                   os_environ, envVars, kidVars, timeout, polls, pollOut,
                   pid, dbgVars>>

\* line 211: the loop condition.  At most MaxPolls polls fit into one clock value.
LoopCheck ==
    /\ pc = "loop"
    /\ IF pid = NoPid /\ now < timeout
       THEN /\ spins < MaxPolls
            /\ pc' = "poll"
            /\ UNCHANGED <<resolver, spins>>
       ELSE /\ pc' = "after_loop"
            /\ resolver' = IF pid = NoPid THEN "TimedOut" ELSE "Found"
            /\ spins' = 0
    /\ UNCHANGED <<outcome, fsVars, user_app_args, selVars, tgtVars, askVars,
                   os_environ, envVars, kidVars, now, timeout, polls, pollOut,
                   pid, dbgVars>>

\* lines 212 - 215: one pidof call.  No output is exit status 1
\* (CalledProcessError, caught); several ids make int() raise ValueError,
\* which nothing catches.
Poll ==
    /\ pc = "poll"
    /\ \E out \in PidofOutputs :
          /\ pollOut' = out
          /\ IF out = <<>>
             THEN /\ pid' = NoPid
                  /\ spins' = spins + 1
                  /\ polls' = polls \cup {"none"}
                  /\ pc' = "loop"
                  /\ UNCHANGED <<outcome, resolver>>
             ELSE IF IntOfOutput(out).ok
             THEN /\ pid' = IntOfOutput(out).val
                  /\ spins' = spins + 1
                  /\ polls' = polls \cup {"one"}
                  /\ pc' = "loop"
                  /\ UNCHANGED <<outcome, resolver>>
             ELSE /\ polls' = polls \cup {"many"}
                  /\ resolver' = "Crashed"
                  /\ Exit("ValueError")
                  /\ spins' = 0
                  /\ UNCHANGED pid
    /\ UNCHANGED <<fsVars, user_app_args, selVars, tgtVars, askVars, os_environ,
                   envVars, kidVars, now, timeout, dbgVars>>

\* the wall clock moves while main is in the loop of 211 - 215
Tick ==
    /\ pc \in {"loop", "poll"}
    /\ now <= timeout
    /\ now' = now + 1
    /\ spins' = 0
    /\ UNCHANGED <<pc, outcome, fsVars, user_app_args, selVars, tgtVars, askVars,
                   os_environ, envVars, kidVars, timeout, polls, pollOut, pid,
                   resolver, dbgVars>>

\* lines 217 - 219 without the test: gdb is started whatever pid is
AfterLoop_noTest ==
    /\ pc = "after_loop"
    /\ pc' = "gdb" /\ outcome' = outcome
    /\ UNCHANGED <<fsVars, user_app_args, selVars, tgtVars, askVars, os_environ,
                   envVars, kidVars, resVars, dbgVars>>

\* lines 217 - 219 without the return: the error is logged and main goes on
\* to the cleanup of 222 - 223
AfterLoop_cleansUp ==
    /\ pc = "after_loop"
    /\ pc' = IF pid = NoPid THEN "kill" ELSE "gdb"
    /\ outcome' = outcome
    /\ UNCHANGED <<fsVars, user_app_args, selVars, tgtVars, askVars, os_environ,
                   envVars, kidVars, resVars, dbgVars>>

\* lines 217 - 219
AfterLoop ==
    /\ pc = "after_loop"
    /\ IF pid = NoPid
       THEN Exit("ProcessNotFound")
       ELSE pc' = "gdb" /\ outcome' = outcome
    /\ UNCHANGED <<fsVars, user_app_args, selVars, tgtVars, askVars, os_environ,
                   envVars, kidVars, resVars, dbgVars>>

\* line 221: subprocess.call starts gdb and waits, or raises OSError when gdb
\* cannot be started
GdbStart ==
    /\ pc = "gdb"
    /\ gdbPid' = pid
    /\ gdbCalls' = gdbCalls + 1
    /\ \E starts \in BOOLEAN :
          IF starts
          THEN gdb' = "running" /\ pc' = "gdb_wait" /\ outcome' = outcome
          ELSE gdb' = "failed" /\ Exit("DebuggerFailure")
    /\ UNCHANGED <<fsVars, user_app_args, selVars, tgtVars, askVars, os_environ,
                   envVars, kidVars, resVars, killed>>

\* line 221: gdb ends, subprocess.call returns its exit status
GdbExit ==
    /\ pc = "gdb_wait"
    /\ \E rc \in {0, 1} : gdb' = IF rc = 0 THEN "exit_zero" ELSE "exit_nonzero"
    /\ pc' = "kill"
    /\ UNCHANGED <<outcome, fsVars, user_app_args, selVars, tgtVars, askVars,
                   os_environ, envVars, kidVars, resVars, gdbPid, gdbCalls, killed>>

\* line 222
Kill ==
    /\ pc = "kill"
    /\ killed' = killed \cup {pid}
    /\ pc' = "remove"
    /\ UNCHANGED <<outcome, fsVars, user_app_args, selVars, tgtVars, askVars,
                   os_environ, envVars, kidVars, resVars, gdb, gdbPid, gdbCalls>>

\* line 223
Remove ==
    /\ pc = "remove"
    /\ IF ScriptPath \in fs
       THEN fs' = fs \ {ScriptPath} /\ Exit("Finished")
       ELSE fs' = fs /\ Exit("FileNotFoundError")
    /\ UNCHANGED <<written, user_app_args, selVars, tgtVars, askVars, os_environ,
                   envVars, kidVars, resVars, dbgVars>>

Next ==
    \/ ParseArgs
    \/ ResolveCatalog
    \/ GetLaunchExecutable
    \/ SelectOnly
    \/ SelectPrompt
    \/ Download
    \/ WriteScript
    \/ BuildTarget
    \/ Confirm
    \/ CopyEnviron
    \/ ComposeStep
    \/ Spawn
    \/ StartTimer
    \/ LoopCheck
    \/ Poll
    \/ Tick
    \/ AfterLoop
    \/ GdbStart
    \/ GdbExit
    \/ Kill
    \/ Remove

Spec == Init /\ [][Next]_vars

\* lines 77 - 202: main up to and including the Popen call
NextEnv ==
    \/ ParseArgs
    \/ ResolveCatalog
    \/ GetLaunchExecutable
    \/ SelectOnly
    \/ SelectPrompt
    \/ Download
    \/ WriteScript
    \/ BuildTarget
    \/ Confirm
    \/ CopyEnviron
    \/ ComposeStep
    \/ Spawn

SpecEnv == InitEnv /\ [][NextEnv]_vars

TypeOK ==
    /\ fs \subseteq TmpPaths /\ written \subseteq TmpPaths
    /\ pid \in {NoPid} \cup Pids
    /\ killed \subseteq Pids
    /\ now \in 0..(Timeout + 1)
    /\ spins \in 0..MaxPolls
    /\ popenCalls \in 0..1
    /\ ruleIdx \in 0..(Len(Rules) + 1)

\* ------------------------------------------------------------------ claims
Range(s) == {s[i] : i \in 1..Len(s)}
\* the confirmation answer began with "n" or "N" (confirm is the answer upper-cased)
AnswerBeginsWithN == answered /\ Len(confirm) > 0 /\ confirm[1] = "N"
GdbEnded == gdb \in {"exit_zero", "exit_nonzero", "failed"}
ResolverEnded == resolver \in {"Found", "TimedOut", "Crashed"}
MatchSeen == polls \cap {"one", "many"} # {}

\* C1: on every exit of main taken after /tmp/.protongdb_args was written, the
\* file no longer exists when main has finished.
C1_ScriptRemovedOnEveryExit ==
    (pc = "done" /\ ScriptPath \in written) => ScriptPath \notin fs

\* C2: once a pid is resolved, however the gdb call ends (exit status zero,
\* non-zero, or it cannot be started and raises), kill -9 is sent to that pid
\* and the script file is deleted, and neither happens before the gdb call
\* has ended.
C2_CleanupHoweverDebuggerEnds ==
    /\ (pc = "done" /\ resolver = "Found") => (killed = {pid} /\ ScriptPath \notin fs)
    /\ killed # {} => GdbEnded
    /\ (resolver = "Found" /\ ScriptPath \notin fs) => GdbEnded

\* C3: when the confirmation answer begins with "n" or "N" the run ends with
\* no side effects: no child spawned, no debugger started, no file created
\* or written.
C3_AbortHasNoSideEffects ==
    (pc = "done" /\ AnswerBeginsWithN) =>
        /\ popenCalls = 0 /\ spawned = <<>>
        /\ gdb = "not_started" /\ killed = {}
        /\ written = {}

\* C4: the child is spawned only after the confirmation prompt was answered;
\* never when the answer begins with "n" or "N"; for every other answer,
\* the empty one included, Popen is called exactly once and, unless Popen
\* itself raises, exactly one child exists from then on.
C4_SpawnGatedByConfirmation ==
    /\ popenCalls <= 1 /\ Len(spawned) <= popenCalls
    /\ popenCalls > 0 => (answered /\ ~AnswerBeginsWithN)
    /\ AnswerBeginsWithN => (popenCalls = 0 /\ spawned = <<>>)
    /\ (answered /\ ~AnswerBeginsWithN /\ pc \notin {"environ", "compose", "spawn"}) =>
          /\ popenCalls = 1
          /\ outcome # "SpawnFailure" => Len(spawned) = 1
C4_Witness ==
    /\ answered /\ confirm = <<>>
    /\ popenCalls = 1 /\ Len(spawned) = 1

\* C5: the resolver ends in Found with the id a poll printed if some poll
\* before the deadline saw a matching process, even when earlier polls saw
\* none; it ends in TimedOut if no poll saw one; a poll without a match is
\* never an error.
C5_FoundIffSomePollMatched ==
    /\ ResolverEnded =>
          IF MatchSeen
          THEN resolver = "Found" /\ pid \in Range(pollOut)
          ELSE resolver = "TimedOut" /\ pid = NoPid
    /\ (pc = "done" /\ ~MatchSeen /\ "none" \in polls) => outcome = "ProcessNotFound"

\* C6: when a poll prints more than one process id, the resolver goes to
\* Found with one of those ids; it does not fail, crash or keep polling.
C6_SeveralIdsStillFound ==
    Len(pollOut) > 1 =>
        /\ outcome # "ValueError"
        /\ pid \in Range(pollOut)
        /\ pc # "poll"
        /\ pc # "loop" => resolver = "Found"

\* the rule list by the modes the specification gives the variables
AppendPathVars == {"PATH", "WINEDLLOVERRIDES"}
PrependPathVars == {"WINEDLLPATH", "GST_PLUGIN_SYSTEM_PATH_1_0"}
SetIfAbsentVars ==
    {"WINEDEBUG", "LD_LIBRARY_PATH", "WINEPREFIX", "WINEESYNC", "WINEFSYNC",
     "SteamGameId", "SteamAppId", "STEAM_COMPAT_CLIENT_INSTALL_PATH",
     "WINE_LARGE_ADDRESS_AWARE", "WINE_GST_REGISTRY_DIR"}
RuleIds == 1..Len(Rules)
\* statement i of 187 - 200 has run / is still to run on the working copy
Applied(i) == ruleIdx > i
Pending(i) == ruleIdx >= 1 /\ ruleIdx <= i
\* the variable's value when main starts, None when it is unset
Existing(v) == Get(os_environ, v)
\* until its statement runs, the working copy holds the existing value
PendingIsExisting(i) ==
    Pending(i) => Get(env_vars, Rules[i].var) = Existing(Rules[i].var)

\* C7 as claimed: every AppendPath rule (PATH with ":", WINEDLLOVERRIDES with
\* ";") yields existing + delimiter + value when the existing value is
\* non-empty, and value alone when it is unset or empty.
C7_AppendPathExistingFirst ==
    \A i \in RuleIds :
        (Applied(i) /\ Rules[i].var \in AppendPathVars) =>
            env_vars[Rules[i].var] =
                IF Truthy(Existing(Rules[i].var))
                THEN Existing(Rules[i].var).s \o Rules[i].delim \o Rules[i].value
                ELSE Rules[i].value

\* C7 amended: every AppendPath rule yields value + delimiter + existing when
\* the existing value is non-empty (PATH=/usr/bin with /opt/bin gives
\* /opt/bin:/usr/bin), and value alone when it is unset or empty.
C7_AppendPathValueFirst ==
    \A i \in RuleIds :
        /\ Rules[i].var \in AppendPathVars => PendingIsExisting(i)
        /\ (Applied(i) /\ Rules[i].var \in AppendPathVars) =>
              env_vars[Rules[i].var] =
                  IF Truthy(Existing(Rules[i].var))
                  THEN Rules[i].value \o Rules[i].delim \o Existing(Rules[i].var).s
                  ELSE Rules[i].value
C7_Witness ==
    /\ pc = "spawn"
    /\ "PATH" \in DOMAIN os_environ /\ os_environ["PATH"] = <<"e">>
    /\ env_vars["PATH"] = ProtonPath \o <<"/files/bin", ":", "e">>

\* C8 as claimed: every PrependPath rule (WINEDLLPATH,
\* GST_PLUGIN_SYSTEM_PATH_1_0) yields value + delimiter + existing when the
\* existing value is non-empty, and value alone when it is unset or empty.
C8_PrependPathValueFirst ==
    \A i \in RuleIds :
        (Applied(i) /\ Rules[i].var \in PrependPathVars) =>
            env_vars[Rules[i].var] =
                IF Truthy(Existing(Rules[i].var))
                THEN Rules[i].value \o Rules[i].delim \o Existing(Rules[i].var).s
                ELSE Rules[i].value

\* C8 amended: every PrependPath rule yields existing + delimiter + value
\* when the existing value is non-empty, and value alone when it is unset or
\* empty.
C8_PrependPathExistingFirst ==
    \A i \in RuleIds :
        /\ Rules[i].var \in PrependPathVars => PendingIsExisting(i)
        /\ (Applied(i) /\ Rules[i].var \in PrependPathVars) =>
              env_vars[Rules[i].var] =
                  IF Truthy(Existing(Rules[i].var))
                  THEN Existing(Rules[i].var).s \o Rules[i].delim \o Rules[i].value
                  ELSE Rules[i].value
C8_Witness ==
    /\ pc = "spawn"
    /\ "WINEDLLPATH" \in DOMAIN os_environ /\ os_environ["WINEDLLPATH"] = <<"e">>
    /\ env_vars["WINEDLLPATH"] =
          <<"e", ":">> \o ProtonPath \o <<"/files/lib64/wine", ":">>
                       \o ProtonPath \o <<"/files/lib/wine">>

\* C9 as claimed: a SetIfAbsent rule writes its value whenever the variable
\* is unset or set to the empty string: after composition no SetIfAbsent
\* variable that was empty in the base environment is still empty.
C9_SetIfAbsentFillsUnsetAndEmpty ==
    \A i \in RuleIds :
        (Applied(i) /\ Rules[i].var \in SetIfAbsentVars
                    /\ ~Truthy(Existing(Rules[i].var))) =>
            /\ env_vars[Rules[i].var] = Rules[i].value
            /\ env_vars[Rules[i].var] # <<>>

\* C9 amended: a SetIfAbsent rule writes its value whenever the variable is
\* unset; a variable that is set to the empty string stays empty.
C9_SetIfAbsentFillsUnsetOnly ==
    \A i \in RuleIds :
        /\ Rules[i].var \in SetIfAbsentVars => PendingIsExisting(i)
        /\ (Applied(i) /\ Rules[i].var \in SetIfAbsentVars) =>
              /\ Existing(Rules[i].var) = None =>
                    /\ env_vars[Rules[i].var] = Rules[i].value
                    /\ env_vars[Rules[i].var] # <<>>
              /\ Existing(Rules[i].var) = Str(<<>>) => env_vars[Rules[i].var] = <<>>
C9_Witness ==
    /\ pc = "spawn"
    /\ "WINEPREFIX" \in DOMAIN os_environ /\ os_environ["WINEPREFIX"] = <<>>
    /\ env_vars["WINEPREFIX"] = <<>>
    /\ env_vars["WINEDEBUG"] = <<"-all">>

\* C10: a SetIfAbsent rule never overwrites a non-empty existing value: the
\* working copy, and the environment the child is started with, hold that
\* value.
C10_SetIfAbsentKeepsNonEmpty ==
    \A i \in RuleIds :
        /\ Rules[i].var \in SetIfAbsentVars => PendingIsExisting(i)
        /\ (Applied(i) /\ Rules[i].var \in SetIfAbsentVars
                       /\ Truthy(Existing(Rules[i].var))) =>
              /\ env_vars[Rules[i].var] = Existing(Rules[i].var).s
              /\ \A c \in Range(spawned) : c.env[Rules[i].var] = Existing(Rules[i].var).s
C10_Witness ==
    /\ Len(spawned) = 1
    /\ "LD_LIBRARY_PATH" \in DOMAIN os_environ /\ os_environ["LD_LIBRARY_PATH"] = <<"e">>
    /\ spawned[1].env["LD_LIBRARY_PATH"] = <<"e">>

\* C11: for a candidate list of length n > 1 the selection prompt is read
\* exactly once; a line that is the integer i with 0 <= i < n selects
\* candidate i; a line that is no integer, or an integer outside [0, n)
\* (negative ones included), ends the run with InvalidSelection, with no
\* second prompt and no child spawned.
C11_SelectionReadOnceAndValidated ==
    LET n == Len(app_infos) IN
    /\ selectReads <= 1
    /\ (n > 1 /\ pc # "choose") => selectReads = 1
    /\ selectReads = 1 =>
          /\ n > 1
          /\ \A d \in 0..(MaxInfos + 1) : typed = <<DigitChars[d + 1]>> => config_idx = d
          /\ typed \in {<<>>, <<"x">>, <<"1", "x">>} => config_idx = NoIdx
          /\ typed = <<"-", "1">> => config_idx = -1
          /\ IF config_idx \in 0..(n - 1)
             THEN /\ outcome # "InvalidSelection"
                  /\ launch_executable = app_infos[config_idx + 1].launch_executable
                  /\ app_config_args = app_infos[config_idx + 1].app_config_args
             ELSE /\ pc = "done" /\ outcome = "InvalidSelection"
                  /\ popenCalls = 0 /\ spawned = <<>>
C11_Witness ==
    /\ Len(app_infos) = 2 /\ selectReads = 1 /\ typed = <<"1">>
    /\ launch_executable = <<"d", "/", "h">>
    /\ Len(spawned) = 1

\* C12: a candidate list of length 1 yields its only configuration without
\* the selection prompt being read; with an empty candidate list the run
\* fails before any prompt is shown and before anything is spawned or written.
C12_SingleOrEmptyNeedsNoPrompt ==
    /\ selectReads > 0 => Len(app_infos) > 1
    /\ (Len(app_infos) = 1 /\ pc # "choose") =>
          /\ selectReads = 0
          /\ launch_executable = app_infos[1].launch_executable
          /\ app_config_args = app_infos[1].app_config_args
    /\ outcome = "NoLaunchConfiguration" => app_infos = <<>>
    /\ (app_infos = <<>> /\ pc \notin {"parse", "catalog", "launch_infos"}
                         /\ outcome \notin {"Help", "PreconditionMissing"}) =>
          /\ pc = "done" /\ outcome = "NoLaunchConfiguration"
          /\ selectReads = 0 /\ ~answered
          /\ written = {}
          /\ popenCalls = 0 /\ spawned = <<>> /\ gdbCalls = 0 /\ killed = {}
C12_Witness ==
    /\ Len(app_infos) = 1 /\ selectReads = 0
    /\ launch_executable = <<"g">>
    /\ Len(spawned) = 1

\* the tuple of app_infos the run goes on with
Selected == IF Len(app_infos) = 1 THEN app_infos[1] ELSE app_infos[config_idx + 1]

\* C13: the argument vector of the spawned child is the wine binary of the
\* runtime, the bootstrap argument steam.exe, the absolute path of the target
\* executable, then the default arguments of the selected configuration
\* followed by the caller's extra arguments, nothing dropped, doubled or
\* reordered.
C13_ChildArgvInOrder ==
    \A k \in 1..Len(spawned) :
        LET argv == spawned[k].argv IN
        /\ Len(argv) = 3 + Len(Selected.app_config_args) + Len(user_app_args)
        /\ argv[1] = ProtonPath \o <<"/files/bin/wine">>
        /\ argv[2] = <<"steam.exe">>
        /\ argv[3] = InstallPath \o <<"/">> \o Selected.launch_executable
        /\ argv[3][1] = "/"
        /\ SubSeq(argv, 4, 3 + Len(Selected.app_config_args)) = Selected.app_config_args
        /\ SubSeq(argv, 4 + Len(Selected.app_config_args), Len(argv)) = user_app_args
C13_Witness ==
    /\ Len(spawned) = 1
    /\ spawned[1].argv =
          << ProtonPath \o <<"/files/bin/wine">>, <<"steam.exe">>,
             <<"/", "games", "/", "app", "/", "d", "/", "h">>, <<"-c">>, <<"-u">> >>

\* C14: in any run at most one child is spawned and at most one debugger is
\* started; the debugger is started only after the child was spawned and
\* only with the process id the resolver ended in Found with.
C14_OneChildOneDebugger ==
    /\ popenCalls <= 1 /\ Len(spawned) <= 1
    /\ gdbCalls <= 1
    /\ gdb # "not_started" => gdbCalls = 1
    /\ gdbCalls > 0 =>
          /\ Len(spawned) = 1
          /\ resolver = "Found"
          /\ pid # NoPid /\ pid \in Range(pollOut)
          /\ gdbPid = pid
C14_Witness ==
    /\ gdb = "running" /\ gdbCalls = 1
    /\ pollOut = <<2>> /\ gdbPid = 2
    /\ Len(spawned) = 1

\* C16: when the resolver ends in TimedOut the rest of the sequence is
\* dropped: no debugger is started, no terminate signal is sent to any
\* process, and the child that was spawned is left as it is.
C16_TimedOutAbortsWithoutRollback ==
    resolver = "TimedOut" =>
        /\ pid = NoPid
        /\ gdb = "not_started" /\ gdbCalls = 0
        /\ killed = {}
        /\ Len(spawned) = 1
        /\ pc \in {"after_loop", "done"}
        /\ pc = "done" => outcome = "ProcessNotFound"
C16_Witness ==
    /\ resolver = "TimedOut" /\ pc = "done" /\ outcome = "ProcessNotFound"
    /\ "none" \in polls
    /\ Len(spawned) = 1 /\ killed = {}

\* C15 as the specification states it: between a poll that finds no match and
\* the next poll the resolver waits, so a poll that follows a failed poll never
\* starts at the clock value at which that failed poll was made.
C15_WaitBetweenPolls ==
    (pc = "poll" /\ "none" \in polls) => spins = 0

\* C15, amended: the resolver inserts no wait between polls.  The only step
\* that starts a poll is the evaluation of the loop condition of line 211, and
\* it takes no time: a poll that finds no match is followed by the next poll
\* at once, as long as the deadline has not passed.
C15_PollsBackToBack ==
    [][(pc' = "poll" /\ pc # "poll")
          => (pc = "loop" /\ now' = now /\ spins' = spins)]_vars

\* a second poll has started at the clock value of a poll that found no match
C15_Witness ==
    /\ pc = "poll"
    /\ "none" \in polls
    /\ spins >= 1

\* C17 as the specification states it: the polling loop of PidResolver ends in
\* exactly one of Found or TimedOut, Found with a pid and TimedOut at or after
\* the deadline of start + 3 seconds, and no poll is under way once a pid has
\* been obtained.
C17_LoopEndsFoundOrTimedOut ==
    /\ ResolverEnded => resolver \in {"Found", "TimedOut"}
    /\ resolver = "Found" => pid # NoPid
    /\ resolver = "TimedOut" => (pid = NoPid /\ now >= timeout)
    /\ pc = "poll" => pid = NoPid

\* the variables named by the statements 187 - 200
RuleVars == {Rules[i].var : i \in RuleIds}

\* C18: environment composition works on a copy and touches only the variables
\* the rules name: os.environ is never modified, and from the copy on every
\* variable of os.environ is present in env_vars, every variable of os.environ
\* that no rule names has its base value in env_vars, and env_vars holds no
\* variable beyond those of os.environ and those the rules name.
C18_ComposeTouchesOnlyRuleVars ==
    /\ [](ruleIdx >= 1 =>
            /\ DOMAIN os_environ \subseteq DOMAIN env_vars
            /\ \A v \in DOMAIN os_environ \ RuleVars : env_vars[v] = os_environ[v]
            /\ DOMAIN env_vars \subseteq DOMAIN os_environ \cup RuleVars)
    /\ [][os_environ' = os_environ]_vars

\* every rule has been applied to an environment that sets a variable no rule
\* names, and the composed environment holds that variable and the rules' ones
C18_Witness ==
    /\ pc = "spawn"
    /\ "HOME" \in DOMAIN os_environ
    /\ os_environ["HOME"] = <<"e">>
    /\ "HOME" \in DOMAIN env_vars
    /\ env_vars["HOME"] = <<"e">>
    /\ RuleVars \subseteq DOMAIN env_vars

====
